---- MODULE Spec2Model ----
(***************************************************************************)
(* Campaign Engine of the XTEP-like marketing automation toy               *)
(* (src/src/services/CampaignService.ts).                                  *)
(*                                                                         *)
(* The service keeps a Map<string, Campaign>.  Every public method is an   *)
(* async function; a method body runs without interruption up to its next  *)
(* `await`, where other calls may run.  createCampaign, startCampaign and  *)
(* endCampaign contain no await; enterCampaign awaits runInstantLottery    *)
(* and then notifyWinner / notifyLoser (instant variants only);            *)
(* runLaterLottery awaits notifyWinner after every drawn winner.  Each     *)
(* suspended call is a record of `tasks` holding its local variables.      *)
(*                                                                         *)
(* Second part: the Scheduler (SchedulerService, src/unnamed/part_002).    *)
(* It keeps a Map of posts, a Map of per-post timer handles and the flag   *)
(* isRunning.  Posts are JavaScript objects: the Map and a suspended       *)
(* executePost hold REFERENCES to them, so the model has a heap of post    *)
(* objects.  The timeouts of the runtime (setTimeout) are state of their   *)
(* own: a timeout stays armed until it fires or is cleared, whether or not *)
(* the `timers` Map still holds its handle.  executePost suspends at       *)
(* `await this.publishPost(post)`.  The two services do not share state;   *)
(* each has a specification in which the other one does not move.          *)
(***************************************************************************)
EXTENDS Integers, Sequences, FiniteSets, TLC

\* ---------------------------------------------------------------- bounds
MaxCampaigns == 1      \* campaigns ever created
MaxPrizes == 2         \* length of the prize list given to createCampaign
MaxQuantity == 1       \* largest prize quantity given to createCampaign
MaxTasks == 2          \* calls suspended at an await at the same time
MaxPosts == 2          \* posts ever scheduled
MaxTime == 1           \* last instant of the clock; target times are 0..MaxTime
MaxExecutions == 2     \* executePost calls awaiting publishPost at the same time
MaxTimers == 2         \* per-post timeouts armed at the same time
MaxSweepTimers == 2    \* reconciliation timeouts armed at the same time
MaxUpdates == 1        \* updateScheduledPost calls that replace a post
\* The length of a day on the model's clock.
DayLength == 2

\* ------------------------------------------------------------ input sets
Users == {"user1", "user2"}

CampaignTypes == {"later_lottery", "instant_web", "instant_auto"}

\* Prize ids are the caller's, distinct and non-empty as in the tests and demo.
PrizeId(k) == "prize" \o ToString(k)

\* Math.random() * 100 lies in [0, 100); these are the values around the
\* thresholds the code compares it with.
RandomDraws == {0, 9, 10, 99}

\* CampaignRules.winProbability is optional: the field is there or not.
RulesInputs ==
    {[requireFollow |-> FALSE]}
        \cup {[requireFollow |-> FALSE, winProbability |-> w] : w \in {0, 100}}

\* Prize lists a caller can pass: any quantity, any (ignored) remaining.
PrizeInputs ==
    UNION {[1..n -> [quantity : 0..MaxQuantity, remaining : 0..(MaxQuantity + 1)]]
              : n \in 0..MaxPrizes}

PrizesOf(input) ==
    [k \in DOMAIN input |->
        [id |-> PrizeId(k), quantity |-> input[k].quantity,
         remaining |-> input[k].remaining]]

DefaultWinProbability == 10

\* ----------------------------------------------------------------- state
VARIABLES
    campaigns,   \* the Map: campaign id -> Campaign
    tasks,       \* the calls suspended at an await: slot -> locals
    call,        \* history: the call begun by the last step, if any, with its
                 \* arguments (endCampaign: also the status it found, `was`)
    ret          \* history: the value returned by the last step, if any

vars == <<campaigns, tasks, call, ret>>

VARIABLES
    scheduledPosts,  \* the Map: post id -> reference of the post object
    heap,            \* the post objects: reference -> ScheduledPost
    timers,          \* the Map: post id -> handle of the timeout set for it
    isRunning,       \* the flag of start() / stop()
    timeouts,        \* the runtime's armed per-post timeouts: records
                     \* [handle, postId, at]; each calls executePost(postId)
    sweepTimeouts,   \* number of armed timeouts that call checkScheduledPosts
    executions,      \* executePost calls awaiting publishPost: slot -> locals
    now,             \* the clock (what `new Date()` returns)
    generated,       \* number of post ids generated so far
    updated,         \* number of posts replaced by updateScheduledPost so far
    event            \* history: the method that returned a value to its caller
                     \* in the last step, if any, with the kind of value
                     \* ("awaiting": the call is suspended at an await)

schedulerVars == <<scheduledPosts, heap, timers, isRunning, timeouts,
                   sweepTimeouts, executions, now, generated, updated, event>>

Executions == 1..MaxExecutions
NoExecution == [by |-> "none"]
NoEvent == [op |-> "none"]

\* new SchedulerService(): lines 9-11.
SchedulerInit ==
    /\ scheduledPosts = <<>>
    /\ heap = <<>>
    /\ timers = <<>>
    /\ isRunning = FALSE
    /\ timeouts = {}
    /\ sweepTimeouts = 0
    /\ executions = [x \in Executions |-> NoExecution]
    /\ now = 0
    /\ generated = 0
    /\ updated = 0
    /\ event = NoEvent

Tasks == 1..MaxTasks
Idle == [op |-> "idle"]
NoCall == [op |-> "none"]
NoRet == [op |-> "none"]

\* The lowest free slot for a call that suspends, 0 when all are taken.
FreeSlot ==
    IF \E t \in Tasks : tasks[t] = Idle
    THEN CHOOSE t \in Tasks : tasks[t] = Idle /\ \A s \in Tasks : tasks[s] = Idle => t <= s
    ELSE 0

NoCallInProgress == \A t \in Tasks : tasks[t] = Idle

Init ==
    /\ campaigns = <<>>
    /\ tasks = [t \in Tasks |-> Idle]
    /\ call = NoCall
    /\ ret = NoRet
    /\ SchedulerInit

\* --------------------------------------------------------------- helpers
\* generateId: a fresh id (time stamp plus random suffix).
generateId == Cardinality(DOMAIN campaigns) + 1

\* The ids a caller can pass: those generateId hands out and one it never does.
CampaignIds == 1..(MaxCampaigns + 1)

getCampaign(id) == campaigns[id]

Truthy(prizeId) == prizeId # ""

\* ------------------------------------------------------- createCampaign
\* The bound on the store: createCampaign is called MaxCampaigns times at most.
StoreNotFull == Cardinality(DOMAIN campaigns) < MaxCampaigns

NewCampaignKeepRemaining(type, prizes, rules) ==
    [type |-> type,
     prizes |-> prizes,
     participants |-> <<>>,
     status |-> "draft",
     rules |-> rules]

NewCampaign(type, prizes, rules) ==
    [type |-> type,
     prizes |-> [k \in DOMAIN prizes |-> [prizes[k] EXCEPT !.remaining = prizes[k].quantity]],
     participants |-> <<>>,
     status |-> "draft",
     rules |-> rules]

createCampaign(type, prizes, rules) ==
    /\ LET id == generateId
       IN  /\ campaigns' = campaigns @@ (id :> NewCampaign(type, prizes, rules))
           /\ call' = [op |-> "createCampaign", prizes |-> prizes]
           /\ ret' = [op |-> "createCampaign", campaignId |-> id]
    /\ UNCHANGED tasks

\* ------------------------------------------- startCampaign / endCampaign
Started(campaign) == [campaign EXCEPT !.status = "active"]

\* startCampaign without its not-found test: `campaign.status = ...` on
\* undefined throws.
startCampaignUnchecked(id) ==
    /\ call' = [op |-> "startCampaign", campaignId |-> id]
    /\ IF id \notin DOMAIN campaigns
       THEN /\ ret' = [op |-> "startCampaign", campaignId |-> id, value |-> "TypeError"]
            /\ UNCHANGED campaigns
       ELSE /\ campaigns' = [campaigns EXCEPT ![id] = Started(campaigns[id])]
            /\ ret' = [op |-> "startCampaign", campaignId |-> id, value |-> "campaign"]
    /\ UNCHANGED tasks

startCampaign(id) ==
    /\ call' = [op |-> "startCampaign", campaignId |-> id]
    /\ IF id \notin DOMAIN campaigns
       THEN /\ ret' = [op |-> "startCampaign", campaignId |-> id, value |-> "null"]
            /\ UNCHANGED campaigns
       ELSE /\ campaigns' = [campaigns EXCEPT ![id] = Started(campaigns[id])]
            /\ ret' = [op |-> "startCampaign", campaignId |-> id, value |-> "campaign"]
    /\ UNCHANGED tasks

EndedClearsParticipants(campaign) ==
    [campaign EXCEPT !.status = "ended", !.participants = <<>>]

Ended(campaign) == [campaign EXCEPT !.status = "ended"]

endCampaign(id) ==
    /\ call' = [op |-> "endCampaign", campaignId |-> id,
                was |-> IF id \in DOMAIN campaigns THEN campaigns[id].status ELSE "none"]
    /\ IF id \notin DOMAIN campaigns
       THEN /\ ret' = [op |-> "endCampaign", campaignId |-> id, value |-> "null"]
            /\ UNCHANGED campaigns
       ELSE /\ campaigns' = [campaigns EXCEPT ![id] = Ended(campaigns[id])]
            /\ ret' = [op |-> "endCampaign", campaignId |-> id, value |-> "campaign"]
    /\ UNCHANGED tasks

\* -------------------------------------------------------- enterCampaign
alreadyEntered(campaign, user) ==
    \E n \in DOMAIN campaign.participants : campaign.participants[n].userId = user

IsInstant(campaign) == campaign.type = "instant_web" \/ campaign.type = "instant_auto"

EnterRejectedNoDuplicateCheck(campaignId, user) ==
    \/ campaignId \notin DOMAIN campaigns
    \/ campaigns[campaignId].status # "active"

EnterRejectedNoStatusCheck(campaignId, user) ==
    \/ campaignId \notin DOMAIN campaigns
    \/ alreadyEntered(campaigns[campaignId], user)

\* The early returns of enterCampaign (lines 116-132).
EnterRejected(campaignId, user) ==
    \/ campaignId \notin DOMAIN campaigns
    \/ campaigns[campaignId].status # "active"
    \/ alreadyEntered(campaigns[campaignId], user)

\* campaign.rules.winProbability || 10: undefined and 0 are both falsy.
winProbability(rules) ==
    IF "winProbability" \in DOMAIN rules /\ rules.winProbability # 0
    THEN rules.winProbability
    ELSE DefaultWinProbability

availablePrizesUnfiltered(campaign) == [k \in DOMAIN campaign.prizes |-> k]

\* The indices of campaign.prizes.filter((p) => p.remaining > 0), in order.
availablePrizes(campaign) ==
    SelectSeq([k \in DOMAIN campaign.prizes |-> k],
              LAMBDA k : campaign.prizes[k].remaining > 0)

runInstantLotteryNoDecrement(campaign, random) ==
    LET available == availablePrizes(campaign)
    IN  IF available = <<>>
        THEN {[result |-> [won |-> FALSE], prizes |-> campaign.prizes]}
        ELSE IF random < winProbability(campaign.rules)
        THEN {[result |-> [won |-> TRUE, prizeId |-> campaign.prizes[available[j]].id],
               prizes |-> campaign.prizes] : j \in DOMAIN available}
        ELSE {[result |-> [won |-> FALSE], prizes |-> campaign.prizes]}

\* runInstantLottery: the outcomes it can have when Math.random() * 100 is
\* `random`; each is the returned result and the prize list it leaves.  The
\* second Math.random() picks any of the available prizes.
runInstantLottery(campaign, random) ==
    LET available == availablePrizes(campaign)
    IN  IF available = <<>>
        THEN {[result |-> [won |-> FALSE], prizes |-> campaign.prizes]}
        ELSE IF random < winProbability(campaign.rules)
        THEN {[result |-> [won |-> TRUE, prizeId |-> campaign.prizes[available[j]].id],
               prizes |-> [campaign.prizes EXCEPT
                              ![available[j]].remaining = campaign.prizes[available[j]].remaining - 1]]
                 : j \in DOMAIN available}
        ELSE {[result |-> [won |-> FALSE], prizes |-> campaign.prizes]}

\* enterCampaign up to its first await (or to its return when it has none).
enterCampaign(campaignId, user, random) ==
    /\ call' = [op |-> "enterCampaign", campaignId |-> campaignId, user |-> user]
    /\ IF EnterRejected(campaignId, user)
       THEN /\ ret' = [op |-> "enterCampaign", campaignId |-> campaignId,
                       user |-> user, value |-> FALSE]
            /\ UNCHANGED <<campaigns, tasks>>
       ELSE LET campaign == campaigns[campaignId]
                participant == [userId |-> user, won |-> FALSE]
            IN  IF IsInstant(campaign)
                THEN /\ FreeSlot # 0
                     /\ \E out \in runInstantLottery(campaign, random) :
                          /\ campaigns' = [campaigns EXCEPT ![campaignId].prizes = out.prizes]
                          /\ tasks' = [tasks EXCEPT ![FreeSlot] =
                                          [op |-> "enterCampaign", pc |-> "runInstantLottery",
                                           campaignId |-> campaignId,
                                           participant |-> participant,
                                           result |-> out.result]]
                     /\ ret' = NoRet
                ELSE /\ campaigns' = [campaigns EXCEPT ![campaignId].participants =
                                         Append(@, participant)]
                     /\ ret' = [op |-> "enterCampaign", campaignId |-> campaignId,
                                user |-> user, value |-> TRUE]
                     /\ UNCHANGED tasks

\* After `await this.runInstantLottery(...)`: lines 145-151 up to the await of
\* notifyWinner / notifyLoser, which only log.
enterCampaignResult(t) ==
    /\ tasks[t].op = "enterCampaign"
    /\ tasks[t].pc = "runInstantLottery"
    /\ LET result == tasks[t].result
       IN  tasks' = [tasks EXCEPT ![t] =
              [@ EXCEPT !.pc = "notify",
                        !.participant =
                            IF result.won /\ Truthy(result.prizeId)
                            THEN [userId |-> @.userId, won |-> TRUE, prizeId |-> result.prizeId]
                            ELSE @]]
    /\ call' = NoCall
    /\ ret' = NoRet
    /\ UNCHANGED campaigns

\* After the await of the notification: lines 154-162.
enterCampaignPush(t) ==
    /\ tasks[t].op = "enterCampaign"
    /\ tasks[t].pc = "notify"
    /\ campaigns' = [campaigns EXCEPT ![tasks[t].campaignId].participants =
                        Append(@, tasks[t].participant)]
    /\ tasks' = [tasks EXCEPT ![t] = Idle]
    /\ call' = NoCall
    /\ ret' = [op |-> "enterCampaign", campaignId |-> tasks[t].campaignId,
               user |-> tasks[t].participant.userId, value |-> TRUE]

\* ------------------------------------------------------ runLaterLottery
eligibleOfAll(campaign) == [n \in DOMAIN campaign.participants |-> n]

\* The indices of campaign.participants.filter((p) => !p.won), in order.  The
\* filtered array holds references to the participant objects, so an index
\* into campaign.participants stands for the object (none is ever removed).
eligibleOf(campaign) ==
    SelectSeq([n \in DOMAIN campaign.participants |-> n],
              LAMBDA n : ~campaign.participants[n].won)

sliceKeepsAll(seq, index) == seq

\* eligibleParticipants.splice(randomIndex, 1)
splice(seq, index) ==
    [n \in 1..(Len(seq) - 1) |-> IF n < index THEN seq[n] ELSE seq[n + 1]]

\* Where the loops `for (const prize of campaign.prizes) for (i < prize.quantity)`
\* next reach their body when the test of the inner loop is about to be made
\* with prize number k and counter i; k > Len(prizes) when they are over.
RECURSIVE NextDraw(_, _, _)
NextDraw(prizes, k, i) ==
    IF k > Len(prizes) THEN [k |-> k, i |-> 0]
    ELSE IF i < prizes[k].quantity THEN [k |-> k, i |-> i]
    ELSE NextDraw(prizes, k + 1, 0)

\* winner.won = true; winner.prizeId = prize.id
Awarded(participant, prizeId) ==
    [userId |-> participant.userId, won |-> TRUE, prizeId |-> prizeId]

\* The draw loop of runLaterLottery (lines 215-229) from the test of the inner
\* loop to the next `await this.notifyWinner(...)`, or to the return when no
\* further winner is drawn: with no eligible participant left every remaining
\* pass only breaks.  `slot` holds the call while it is suspended.
\* locals.eligibleAtStart is history: the length of eligibleParticipants when
\* the call began.
drawLoop(slot, campaignId, locals) ==
    LET campaign == campaigns[campaignId]
        at == NextDraw(campaign.prizes, locals.k, locals.i)
    IN  IF at.k > Len(campaign.prizes) \/ locals.eligibleParticipants = <<>>
        THEN /\ ret' = [op |-> "runLaterLottery", campaignId |-> campaignId,
                        value |-> locals.winners,
                        eligibleAtStart |-> locals.eligibleAtStart]
             /\ tasks' = [s \in Tasks |-> IF s = slot THEN Idle ELSE tasks[s]]
             /\ UNCHANGED campaigns
        ELSE /\ slot # 0
             /\ \E randomIndex \in DOMAIN locals.eligibleParticipants :
                  LET winner == locals.eligibleParticipants[randomIndex]
                  IN  /\ campaigns' = [campaigns EXCEPT ![campaignId].participants[winner] =
                                          Awarded(@, campaign.prizes[at.k].id)]
                      /\ tasks' = [tasks EXCEPT ![slot] =
                                      [op |-> "runLaterLottery",
                                       campaignId |-> campaignId,
                                       eligibleParticipants |->
                                           splice(locals.eligibleParticipants, randomIndex),
                                       winners |-> Append(locals.winners, winner),
                                       k |-> at.k, i |-> at.i,
                                       eligibleAtStart |-> locals.eligibleAtStart]]
             /\ ret' = NoRet

LaterRejectedNoTypeCheck(campaignId) == campaignId \notin DOMAIN campaigns

\* The early returns of runLaterLottery (lines 201-209).
LaterRejected(campaignId) ==
    \/ campaignId \notin DOMAIN campaigns
    \/ campaigns[campaignId].type # "later_lottery"

\* runLaterLottery up to its first await (or to its return when it has none).
runLaterLottery(campaignId) ==
    /\ call' = [op |-> "runLaterLottery", campaignId |-> campaignId]
    /\ IF LaterRejected(campaignId)
       THEN /\ ret' = [op |-> "runLaterLottery", campaignId |-> campaignId,
                       value |-> <<>>, eligibleAtStart |-> 0]
            /\ UNCHANGED <<campaigns, tasks>>
       ELSE LET eligibleParticipants == eligibleOf(campaigns[campaignId])
            IN  drawLoop(FreeSlot, campaignId,
                         [eligibleParticipants |-> eligibleParticipants,
                          winners |-> <<>>, k |-> 1, i |-> 0,
                          eligibleAtStart |-> Len(eligibleParticipants)])

\* After `await this.notifyWinner(...)`: i++ and the loop goes on.
runLaterLotteryNotified(t) ==
    /\ tasks[t].op = "runLaterLottery"
    /\ call' = NoCall
    /\ drawLoop(t, tasks[t].campaignId, [tasks[t] EXCEPT !.i = @ + 1])

Next ==
    \/ /\ StoreNotFull
       /\ \E type \in CampaignTypes, input \in PrizeInputs, rules \in RulesInputs :
             createCampaign(type, PrizesOf(input), rules)
       /\ UNCHANGED schedulerVars
    \/ \E id \in CampaignIds : startCampaign(id) /\ UNCHANGED schedulerVars
    \/ \E id \in CampaignIds : endCampaign(id) /\ UNCHANGED schedulerVars
    \/ \E id \in CampaignIds, user \in Users, random \in RandomDraws :
          enterCampaign(id, user, random) /\ UNCHANGED schedulerVars
    \/ \E t \in Tasks : enterCampaignResult(t) /\ UNCHANGED schedulerVars
    \/ \E t \in Tasks : enterCampaignPush(t) /\ UNCHANGED schedulerVars
    \/ \E id \in CampaignIds : runLaterLottery(id) /\ UNCHANGED schedulerVars
    \/ \E t \in Tasks : runLaterLotteryNotified(t) /\ UNCHANGED schedulerVars

Spec == Init /\ [][Next]_vars

\* The same service when every call is awaited before the next one is made:
\* a call begins only while no call is suspended.
SeqNext ==
    \/ /\ StoreNotFull /\ NoCallInProgress
       /\ \E type \in CampaignTypes, input \in PrizeInputs, rules \in RulesInputs :
             createCampaign(type, PrizesOf(input), rules)
       /\ UNCHANGED schedulerVars
    \/ \E id \in CampaignIds : NoCallInProgress /\ startCampaign(id) /\ UNCHANGED schedulerVars
    \/ \E id \in CampaignIds : NoCallInProgress /\ endCampaign(id) /\ UNCHANGED schedulerVars
    \/ \E id \in CampaignIds, user \in Users, random \in RandomDraws :
          NoCallInProgress /\ enterCampaign(id, user, random) /\ UNCHANGED schedulerVars
    \/ \E id \in CampaignIds : NoCallInProgress /\ runLaterLottery(id) /\ UNCHANGED schedulerVars
    \/ \E t \in Tasks : enterCampaignResult(t) /\ UNCHANGED schedulerVars
    \/ \E t \in Tasks : enterCampaignPush(t) /\ UNCHANGED schedulerVars
    \/ \E t \in Tasks : runLaterLotteryNotified(t) /\ UNCHANGED schedulerVars

SeqSpec == Init /\ [][SeqNext]_vars

\* ============================================================= Scheduler
\* --------------------------------------------------------- input sets
Times == 0..MaxTime
\* The texts given to schedulePost and to updateScheduledPost; no method
\* reads the text, a post whose text is in UpdateTexts has been updated.
Texts == {"a"}
UpdateTexts == {"b"}
\* The ids generateId can return, and one more that is never generated.
PostIds == 1..(MaxPosts + 1)
\* References of post objects and handles of timeouts are opaque: only their
\* identity matters.  Between steps they are named after their holder: the
\* object that the Map holds for post id p is p, an object held only by
\* suspended executions is MaxPosts + the first slot holding it; the handle
\* that `timers` holds for p is p, the other armed timeouts are numbered after
\* MaxPosts.  NewObject is the name of an object within the step creating it.
NewObject == 0
Handles == 1..(MaxPosts + MaxTimers)
\* The `updates` arguments of updateScheduledPost: a Partial<ScheduledPost>
\* with a text or with a scheduledAt.
UpdateInputs == [text : UpdateTexts] \cup [scheduledAt : Times]

\* ----------------------------------------------------------- helpers
Range(f) == {f[x] : x \in DOMAIN f}
Least(S) == CHOOSE x \in S : \A y \in S : x <= y
\* Map.set and Map.delete
MapSet(map, key, value) == (key :> value) @@ map
MapDelete(map, key) == [k \in DOMAIN map \ {key} |-> map[k]]

\* The part of the state that the helper methods change; `fits` turns FALSE
\* when a step would need more executions or reconciliation timeouts than
\* the bounds allow.
Current ==
    [scheduledPosts |-> scheduledPosts, heap |-> heap, timers |-> timers,
     timeouts |-> timeouts, sweepTimeouts |-> sweepTimeouts,
     executions |-> executions, fits |-> TRUE]

\* Objects that nothing refers to any more are dropped.
Reachable(st) ==
    Range(st.scheduledPosts)
        \cup {st.executions[x].post : x \in {y \in Executions : st.executions[y] # NoExecution}}

\* The suspended executions are not ordered: between steps they are kept in
\* the order of (postId, by, old slot), the free slots last.
ExecutionBefore(st, x, y) ==
    LET e == st.executions[x]
        f == st.executions[y]
    IN  IF e = NoExecution THEN f = NoExecution /\ x <= y
        ELSE IF f = NoExecution THEN TRUE
        ELSE \/ e.postId < f.postId
             \/ e.postId = f.postId /\ e.by = "retryPost" /\ f.by # "retryPost"
             \/ e.postId = f.postId /\ (e.by = "retryPost") = (f.by = "retryPost") /\ x <= y

SlotName(st, x) == Cardinality({y \in Executions : ExecutionBefore(st, y, x)})

\* The name of an object after the step.
RefName(st, ref) ==
    IF ref \in Range(st.scheduledPosts)
    THEN CHOOSE id \in DOMAIN st.scheduledPosts : st.scheduledPosts[id] = ref
    ELSE MaxPosts + Least({SlotName(st, x) : x \in {y \in Executions :
                                /\ st.executions[y] # NoExecution
                                /\ st.executions[y].post = ref}})

\* The name of a timeout handle after the step; timeouts that `timers` does
\* not hold are numbered in the order of (postId, at, old name).
Before(t, u) ==
    \/ t.postId < u.postId
    \/ t.postId = u.postId /\ t.at < u.at
    \/ t.postId = u.postId /\ t.at = u.at /\ t.handle <= u.handle

HandleName(st, handle) ==
    IF handle \in Range(st.timers)
    THEN CHOOSE id \in DOMAIN st.timers : st.timers[id] = handle
    ELSE LET unheld == {t \in st.timeouts : t.handle \notin Range(st.timers)}
             this == CHOOSE t \in unheld : t.handle = handle
         IN  MaxPosts + Cardinality({t \in unheld : Before(t, this)})

\* The step ends: the state becomes `result`, with the names made canonical.
Commit(result) == \E st \in {result} :
    /\ st.fits
    /\ Cardinality(st.timeouts) <= MaxTimers
    /\ scheduledPosts' = [id \in DOMAIN st.scheduledPosts |-> RefName(st, st.scheduledPosts[id])]
    /\ heap' = [r \in {RefName(st, ref) : ref \in Reachable(st)} |->
                   st.heap[CHOOSE ref \in Reachable(st) : RefName(st, ref) = r]]
    /\ timers' = [id \in DOMAIN st.timers |-> HandleName(st, st.timers[id])]
    /\ timeouts' = {[t EXCEPT !.handle = HandleName(st, t.handle)] : t \in st.timeouts}
    /\ sweepTimeouts' = st.sweepTimeouts
    /\ executions' = [n \in Executions |->
                         LET x == CHOOSE y \in Executions : SlotName(st, y) = n
                         IN  IF st.executions[x] = NoExecution
                             THEN NoExecution
                             ELSE [st.executions[x] EXCEPT !.post = RefName(st, @)]]

NothingChanges ==
    UNCHANGED <<scheduledPosts, heap, timers, timeouts, sweepTimeouts, executions>>

NewHandle(st) == Least((0..(MaxPosts + MaxTimers + 1)) \ ({t.handle : t \in st.timeouts} \cup Range(st.timers)))
FreeExecutions(st) == {x \in Executions : st.executions[x] = NoExecution}

\* The post the Map holds under `id` (Map.get followed by a field read).
PostOf(st, id) == st.heap[st.scheduledPosts[id]]

\* private generateId(), lines 374-376: a fresh id.
generatePostId == generated + 1

\* --------------------------------------------------------- executePost
\* executePost up to `await this.publishPost(post)` (lines 188-200): nothing
\* is written; the call is suspended holding the post OBJECT it looked up.
\* `by` is "retryPost" when retryPost awaits the call, "timer" when a timeout
\* callback made it and nothing awaits it.
executePost(st, postId, by) ==
    IF postId \notin DOMAIN st.scheduledPosts
    THEN st
    ELSE IF FreeExecutions(st) = {}
    THEN [st EXCEPT !.fits = FALSE]
    ELSE [st EXCEPT !.executions[Least(FreeExecutions(st))] =
              [by |-> by, postId |-> postId, post |-> st.scheduledPosts[postId]]]

\* clearTimeout(handle)
clearTimeout(st, handle) == [st EXCEPT !.timeouts = {t \in @ : t.handle # handle}]

\* private setupTimer(post), lines 166-183; `ref` is the post object.
setupTimer(st, ref) ==
    LET post == st.heap[ref]
        delay == post.scheduledAt - now
    IN  IF delay <= 0
        THEN executePost(st, post.id, "timer")
        ELSE LET handle == NewHandle(st)
             IN  [st EXCEPT
                     !.timeouts = @ \cup {[handle |-> handle, postId |-> post.id,
                                           at |-> now + delay]},
                     !.timers = MapSet(@, post.id, handle)]

\* `if (timer) { clearTimeout(timer); this.timers.delete(id); }`
\* (lines 113-117 and 152-156).
cancelTimer(st, id) ==
    IF id \in DOMAIN st.timers
    THEN [clearTimeout(st, st.timers[id]) EXCEPT !.timers = MapDelete(@, id)]
    ELSE st

\* -------------------------------------------------- checkScheduledPosts
\* getScheduledPosts('pending'), lines 77-85: the post objects of the Map
\* whose status is pending.
pendingPosts(st) == {ref \in Range(st.scheduledPosts) : st.heap[ref].status = "pending"}

\* The forEach callback without its first branch.
checkPostFutureOnly(st, ref) ==
    LET post == st.heap[ref] IN
    IF post.scheduledAt > now /\ post.id \notin DOMAIN st.timers
    THEN setupTimer(st, ref)
    ELSE st

\* The body of the forEach callback, lines 239-245.
checkPost(st, ref) ==
    LET post == st.heap[ref] IN
    IF post.scheduledAt <= now /\ post.id \notin DOMAIN st.timers
    THEN executePost(st, post.id, "timer")
    ELSE IF post.scheduledAt > now /\ post.id \notin DOMAIN st.timers
    THEN setupTimer(st, ref)
    ELSE st

\* pendingPosts.forEach(...): the Map is iterated in insertion order, which
\* is the order of the ids.
RECURSIVE forEach(_, _)
forEach(st, posts) ==
    IF posts = {}
    THEN st
    ELSE LET first == CHOOSE ref \in posts :
                         \A other \in posts : st.heap[ref].id <= st.heap[other].id
         IN  forEach(checkPost(st, first), posts \ {first})

\* private checkScheduledPosts(), lines 232-248, with the value of isRunning
\* it reads.  The timeout of line 247 is not kept anywhere.
checkScheduledPosts(st, running) ==
    IF ~running
    THEN st
    ELSE LET swept == forEach(st, pendingPosts(st))
         IN  IF swept.sweepTimeouts >= MaxSweepTimers
             THEN [swept EXCEPT !.fits = FALSE]
             ELSE [swept EXCEPT !.sweepTimeouts = @ + 1]

\* ------------------------------------------------------------ start / stop
\* start(), lines 16-25.
start ==
    /\ event' = NoEvent
    /\ isRunning' = TRUE
    /\ IF isRunning
       THEN NothingChanges
       ELSE Commit(checkScheduledPosts(Current, TRUE))
    /\ UNCHANGED <<now, generated, updated>>

\* stop(), lines 30-42: clears the timeouts whose handles are in `timers`.
stop ==
    /\ event' = NoEvent
    /\ isRunning' = FALSE
    /\ IF ~isRunning
       THEN NothingChanges
       ELSE Commit([Current EXCEPT
                       !.timeouts = {t \in @ : t.handle \notin Range(timers)},
                       !.timers = <<>>])
    /\ UNCHANGED <<now, generated, updated>>

\* The reconciliation timeout of line 247 fires: checkScheduledPosts().
sweepFires ==
    /\ sweepTimeouts > 0
    /\ event' = NoEvent
    /\ Commit(checkScheduledPosts([Current EXCEPT !.sweepTimeouts = @ - 1], isRunning))
    /\ UNCHANGED <<isRunning, now, generated, updated>>

\* ----------------------------------------------------------- schedulePost
ArmsWhenever(scheduledAt) == scheduledAt > now

\* The condition of line 64.
Arms(scheduledAt) == isRunning /\ scheduledAt > now

\* schedulePost(text, scheduledAt), lines 47-72.
schedulePost(text, scheduledAt) ==
    LET post == [id |-> generatePostId, text |-> text, scheduledAt |-> scheduledAt,
                 status |-> "pending"]
        ref == NewObject
        stored == [Current EXCEPT !.heap = MapSet(@, ref, post),
                                  !.scheduledPosts = MapSet(@, post.id, ref)]
    IN  /\ generated' = post.id
        /\ event' = [op |-> "schedulePost", returned |-> "post"]
        /\ IF Arms(scheduledAt)
           THEN Commit(setupTimer(stored, ref))
           ELSE Commit(stored)
        /\ UNCHANGED <<isRunning, now, updated>>

\* ------------------------------------ updateScheduledPost / deleteScheduledPost
\* { ...post, ...updates }
merged(post, updates) ==
    [f \in DOMAIN post |-> IF f \in DOMAIN updates THEN updates[f] ELSE post[f]]

\* The early returns of updateScheduledPost and deleteScheduledPost
\* (lines 102-110 and 142-150).
NotPendingUnknownOnly(id) == id \notin DOMAIN scheduledPosts

NotPending(id) ==
    IF id \notin DOMAIN scheduledPosts
    THEN TRUE
    ELSE PostOf(Current, id).status # "pending"

\* updateScheduledPost(id, updates), lines 97-134.
updateScheduledPost(id, updates) ==
    /\ IF NotPending(id)
       THEN /\ event' = [op |-> "updateScheduledPost", returned |-> "null"]
            /\ NothingChanges
            /\ UNCHANGED updated
       ELSE LET cancelled == cancelTimer(Current, id)
                updatedPost == merged(PostOf(Current, id), updates)
                ref == NewObject
                stored == [cancelled EXCEPT !.heap = MapSet(@, ref, updatedPost),
                                            !.scheduledPosts = MapSet(@, id, ref)]
            IN  /\ event' = [op |-> "updateScheduledPost", returned |-> "post"]
                /\ IF "scheduledAt" \in DOMAIN updates /\ isRunning
                          /\ updatedPost.scheduledAt > now
                   THEN Commit(setupTimer(stored, ref))
                   ELSE Commit(stored)
                /\ updated' = updated + 1
    /\ UNCHANGED <<isRunning, now, generated>>

\* deleteScheduledPost(id), lines 139-161.
deleteScheduledPost(id) ==
    /\ IF NotPending(id)
       THEN /\ event' = [op |-> "deleteScheduledPost", returned |-> "false"]
            /\ NothingChanges
       ELSE /\ event' = [op |-> "deleteScheduledPost", returned |-> "true"]
            /\ Commit([cancelTimer(Current, id) EXCEPT
                          !.scheduledPosts = MapDelete(@, id)])
    /\ UNCHANGED <<isRunning, now, generated, updated>>

\* ------------------------------------------------- timers and executions
\* An armed per-post timeout fires, not before its time: the callback of
\* line 178 calls executePost(post.id).
timeoutFires(t) ==
    /\ t \in timeouts
    /\ t.at <= now
    /\ event' = NoEvent
    /\ Commit(executePost(clearTimeout(Current, t.handle), t.postId, "timer"))
    /\ UNCHANGED <<isRunning, now, generated, updated>>

\* Every execution marks the post posted.
statusAlwaysPosted(outcome) == "posted"

\* The status executePost writes: line 203 when publishPost resolved,
\* line 209 when it threw.
statusAfter(outcome) == IF outcome = "resolved" THEN "posted" ELSE "failed"

\* executePost from the end of `await this.publishPost(post)` on (lines
\* 200-215): writes the status into the object it holds, puts that object in
\* the Map and deletes the entry of `timers`.  A retryPost that awaited this
\* execution then returns true (line 368).
publishSettles(x, outcome) ==
    /\ executions[x] # NoExecution
    /\ LET e == executions[x] IN
       /\ event' = IF e.by = "retryPost"
                   THEN [op |-> "retryPost", returned |-> "true"]
                   ELSE NoEvent
       /\ Commit([Current EXCEPT
                     !.executions[x] = NoExecution,
                     !.heap[e.post].status = statusAfter(outcome),
                     !.scheduledPosts = MapSet(@, e.postId, e.post),
                     !.timers = MapDelete(@, e.postId)])
    /\ UNCHANGED <<isRunning, now, generated, updated>>

\* The early returns of retryPost (lines 350-357).
NotFailed(id) ==
    IF id \notin DOMAIN scheduledPosts
    THEN TRUE
    ELSE PostOf(Current, id).status # "failed"

\* retryPost(postId), lines 347-369, up to its await.
retryPost(id) ==
    /\ IF NotFailed(id)
       THEN /\ event' = [op |-> "retryPost", returned |-> "false"]
            /\ NothingChanges
       ELSE LET ref == scheduledPosts[id]
                reset == [Current EXCEPT !.heap[ref].status = "pending",
                                         !.heap[ref].scheduledAt = now]
            IN  IF isRunning
                THEN /\ event' = [op |-> "retryPost", returned |-> "awaiting"]
                     /\ Commit(executePost(reset, id, "retryPost"))
                ELSE /\ event' = [op |-> "retryPost", returned |-> "true"]
                     /\ Commit(reset)
    /\ UNCHANGED <<isRunning, now, generated, updated>>

\* getScheduledPost(id), lines 90-92: Map.get, undefined for a missing key.
undefined == [status |-> "undefined"]
getScheduledPost(id) ==
    IF id \in DOMAIN scheduledPosts THEN PostOf(Current, id) ELSE undefined

\* ----------------------------------------------------------- getStatistics
\* setHours(0, 0, 0, 0) and setDate(getDate() + 1), lines 288-291: the start
\* of the day of `now` and the start of the next day.
today == now - (now % DayLength)
tomorrow == today + DayLength

\* The statistics with the posted posts left out of the count.
getStatisticsPostedUncounted ==
    LET all == DOMAIN scheduledPosts
        count(status) == Cardinality({id \in all : PostOf(Current, id).status = status})
    IN  [totalScheduled |-> Cardinality(all),
         pending |-> count("pending"),
         posted |-> 0,
         failed |-> count("failed"),
         upcomingToday |-> Cardinality({id \in all :
                               /\ PostOf(Current, id).status = "pending"
                               /\ PostOf(Current, id).scheduledAt >= today
                               /\ PostOf(Current, id).scheduledAt < tomorrow})]

\* getStatistics(), lines 280-305; `all` is the values of the Map, one per id.
getStatistics ==
    LET all == DOMAIN scheduledPosts
        count(status) == Cardinality({id \in all : PostOf(Current, id).status = status})
    IN  [totalScheduled |-> Cardinality(all),
         pending |-> count("pending"),
         posted |-> count("posted"),
         failed |-> count("failed"),
         upcomingToday |-> Cardinality({id \in all :
                               /\ PostOf(Current, id).status = "pending"
                               /\ PostOf(Current, id).scheduledAt >= today
                               /\ PostOf(Current, id).scheduledAt < tomorrow})]

\* Time passes.
Tick ==
    /\ now < MaxTime
    /\ now' = now + 1
    /\ event' = NoEvent
    /\ UNCHANGED <<scheduledPosts, heap, timers, isRunning, timeouts, sweepTimeouts,
                   executions, generated, updated>>

PublishOutcomes == {"resolved", "rejected"}

SchedulerNext ==
    \/ start /\ UNCHANGED vars
    \/ stop /\ UNCHANGED vars
    \/ /\ generated < MaxPosts
       /\ \E text \in Texts, scheduledAt \in Times : schedulePost(text, scheduledAt)
       /\ UNCHANGED vars
    \/ \E id \in PostIds, updates \in UpdateInputs :
          /\ IF NotPending(id) THEN TRUE ELSE updated < MaxUpdates
          /\ updateScheduledPost(id, updates)
          /\ UNCHANGED vars
    \/ \E id \in PostIds : deleteScheduledPost(id) /\ UNCHANGED vars
    \/ \E id \in PostIds : retryPost(id) /\ UNCHANGED vars
    \/ \E t \in timeouts : timeoutFires(t) /\ UNCHANGED vars
    \/ sweepFires /\ UNCHANGED vars
    \/ \E x \in Executions, outcome \in PublishOutcomes :
          publishSettles(x, outcome) /\ UNCHANGED vars
    \/ Tick /\ UNCHANGED vars

SchedulerSpec == Init /\ [][SchedulerNext]_schedulerVars

\* The scheduler when no stored post is replaced by updateScheduledPost.
RunNext ==
    \/ start /\ UNCHANGED vars
    \/ stop /\ UNCHANGED vars
    \/ /\ generated < MaxPosts
       /\ \E text \in Texts, scheduledAt \in Times : schedulePost(text, scheduledAt)
       /\ UNCHANGED vars
    \/ \E id \in PostIds : deleteScheduledPost(id) /\ UNCHANGED vars
    \/ \E id \in PostIds : retryPost(id) /\ UNCHANGED vars
    \/ \E t \in timeouts : timeoutFires(t) /\ UNCHANGED vars
    \/ sweepFires /\ UNCHANGED vars
    \/ \E x \in Executions, outcome \in PublishOutcomes :
          publishSettles(x, outcome) /\ UNCHANGED vars
    \/ Tick /\ UNCHANGED vars

\* Some armed timeout of the post fires; some publishPost of the post settles.
timeoutFiresFor(id) == \E t \in timeouts : t.postId = id /\ timeoutFires(t)
publishSettlesFor(id) ==
    \E x \in Executions, outcome \in PublishOutcomes :
        /\ executions[x] # NoExecution
        /\ executions[x].postId = id
        /\ publishSettles(x, outcome)

\* Time passes, the runtime runs every timeout callback that is due (the
\* model disables one only while the bound on executions is reached, hence
\* strong fairness) and every publishPost call settles.
FairSchedulerSpec ==
    /\ Init
    /\ [][RunNext]_schedulerVars
    /\ WF_schedulerVars(Tick)
    /\ SF_schedulerVars(sweepFires)
    /\ \A id \in 1..MaxPosts : SF_schedulerVars(timeoutFiresFor(id))
    /\ \A id \in 1..MaxPosts : WF_schedulerVars(publishSettlesFor(id))

\* ------------------------------------------------- vocabulary of the claims
\* The step begins a call enterCampaign(id, user).
EnterCalled(id, user) ==
    call' = [op |-> "enterCampaign", campaignId |-> id, user |-> user]

HasEntered(id, user) ==
    \E n \in DOMAIN campaigns[id].participants :
        campaigns[id].participants[n].userId = user

\* The step begins a call enterCampaign(id, user) that passes the three checks.
EnterAccepted(id, user) ==
    /\ EnterCalled(id, user)
    /\ id \in DOMAIN campaigns
    /\ campaigns[id].status = "active"
    /\ ~HasEntered(id, user)

InstantType(id) == campaigns[id].type \in {"instant_web", "instant_auto"}

RulesProbability(id, w) ==
    /\ "winProbability" \in DOMAIN campaigns[id].rules
    /\ campaigns[id].rules.winProbability = w

RECURSIVE SumQuantity(_)
SumQuantity(prizes) ==
    IF prizes = <<>> THEN 0 ELSE Head(prizes).quantity + SumQuantity(Tail(prizes))

\* The participants of campaign id that hold prize number k.
Holders(id, k) ==
    {n \in DOMAIN campaigns[id].participants :
        /\ "prizeId" \in DOMAIN campaigns[id].participants[n]
        /\ campaigns[id].participants[n].prizeId = campaigns[id].prizes[k].id}

\* ---------------------------------------------------------------------- C1
\* C1: in every reachable state, whatever calls were made and however they
\* overlap, every prize of every campaign has 0 <= remaining <= quantity.
PrizeRemainingInRange ==
    \A id \in DOMAIN campaigns : \A k \in DOMAIN campaigns[id].prizes :
        /\ 0 <= campaigns[id].prizes[k].remaining
        /\ campaigns[id].prizes[k].remaining <= campaigns[id].prizes[k].quantity

\* A prize has been awarded down to its last unit.
PrizeExhausted ==
    \E id \in DOMAIN campaigns : \E k \in DOMAIN campaigns[id].prizes :
        /\ campaigns[id].prizes[k].quantity > 0
        /\ campaigns[id].prizes[k].remaining = 0

\* ---------------------------------------------------------------------- C2
UniqueParticipants ==
    \A id \in DOMAIN campaigns : \A m, n \in DOMAIN campaigns[id].participants :
        m # n => campaigns[id].participants[m].userId # campaigns[id].participants[n].userId

\* C2: when every enterCampaign completes before the next call begins, a user
\* id appears at most once in a campaign's participants, and enterCampaign for
\* a user who already has a participant record returns false.
OneEntryPerUser ==
    /\ []UniqueParticipants
    /\ [][\A id \in CampaignIds, user \in Users :
             (EnterCalled(id, user) /\ id \in DOMAIN campaigns /\ HasEntered(id, user))
                 => (ret'.op = "enterCampaign" /\ ret'.value = FALSE)]_vars

\* A second entry of a user into an active campaign has just been rejected.
SecondEntryRejected ==
    /\ call.op = "enterCampaign"
    /\ ret.op = "enterCampaign"
    /\ ret.value = FALSE
    /\ call.campaignId \in DOMAIN campaigns
    /\ campaigns[call.campaignId].status = "active"
    /\ HasEntered(call.campaignId, call.user)

\* ---------------------------------------------------------------------- C3
\* C3: in an active instant campaign with winProbability = 100 and a prize with
\* remaining > 0, an accepted enterCampaign draws a win whatever the random
\* value, takes one unit off the drawn prize and no other; and a call whose
\* draw won goes on to append its participant with won = true and that
\* prizeId, returning true.
CertainWin ==
    [][/\ \A id \in CampaignIds, user \in Users :
            ( /\ EnterAccepted(id, user)
              /\ InstantType(id)
              /\ RulesProbability(id, 100)
              /\ \E k \in DOMAIN campaigns[id].prizes : campaigns[id].prizes[k].remaining > 0 )
            => \E t \in Tasks :
                  /\ tasks[t] = Idle
                  /\ tasks'[t].op = "enterCampaign"
                  /\ tasks'[t].campaignId = id
                  /\ tasks'[t].participant.userId = user
                  /\ tasks'[t].result.won
                  /\ \E k \in DOMAIN campaigns[id].prizes :
                        /\ campaigns[id].prizes[k].id = tasks'[t].result.prizeId
                        /\ campaigns[id].prizes[k].remaining > 0
                        /\ campaigns'[id].prizes =
                              [campaigns[id].prizes EXCEPT ![k].remaining = @ - 1]
       /\ \A t \in Tasks :
            (tasks[t].op = "enterCampaign" /\ tasks[t].result.won /\ tasks'[t] # tasks[t])
            => \/ /\ tasks'[t].op = "enterCampaign"
                  /\ tasks'[t].result = tasks[t].result
                  /\ tasks'[t].campaignId = tasks[t].campaignId
                  /\ tasks'[t].participant =
                        [userId |-> tasks[t].participant.userId, won |-> TRUE,
                         prizeId |-> tasks[t].result.prizeId]
               \/ /\ tasks'[t] = Idle
                  /\ ret' = [op |-> "enterCampaign", campaignId |-> tasks[t].campaignId,
                             user |-> tasks[t].participant.userId, value |-> TRUE]
                  /\ campaigns'[tasks[t].campaignId].participants =
                        Append(campaigns[tasks[t].campaignId].participants,
                               [userId |-> tasks[t].participant.userId, won |-> TRUE,
                                prizeId |-> tasks[t].result.prizeId])
      ]_vars

\* The end-to-end scenario: instant_auto, one prize of quantity 1,
\* winProbability 100, one user entered: true, remaining 0, won.
FirstEntryWonLastPrize ==
    /\ ret.op = "enterCampaign"
    /\ ret.value = TRUE
    /\ ret.campaignId \in DOMAIN campaigns
    /\ campaigns[ret.campaignId].type = "instant_auto"
    /\ RulesProbability(ret.campaignId, 100)
    /\ campaigns[ret.campaignId].prizes =
          <<[id |-> PrizeId(1), quantity |-> 1, remaining |-> 0]>>
    /\ campaigns[ret.campaignId].participants =
          <<[userId |-> ret.user, won |-> TRUE, prizeId |-> PrizeId(1)]>>

\* ---------------------------------------------------------------------- C4
\* C4: in an active instant campaign whose rules have winProbability = 0, an
\* accepted enterCampaign loses for every random value: its draw is not a win
\* and no prize's remaining changes.
ZeroProbabilityNeverWins ==
    [][\A id \in CampaignIds, user \in Users :
          (EnterAccepted(id, user) /\ InstantType(id) /\ RulesProbability(id, 0))
          => /\ campaigns'[id].prizes = campaigns[id].prizes
             /\ \E t \in Tasks :
                   /\ tasks[t] = Idle
                   /\ tasks'[t].op = "enterCampaign"
                   /\ ~tasks'[t].result.won
      ]_vars

\* ---------------------------------------------------------------------- C5
\* The participants of campaign id that have not won, counted in this state.
NotYetWon(id) ==
    Cardinality({n \in DOMAIN campaigns[id].participants :
                    ~campaigns[id].participants[n].won})

\* C5: a runLaterLottery call on a later_lottery campaign returns at most as
\* many winners as the prize quantities add up to, at most as many as there
\* were not-yet-won participants when the call began, and no participant
\* twice.  (eligibleAtStart is that number: the first two conjuncts say that it
\* is taken when the call begins and carried unchanged to the return.)
LaterLotteryWinnersBounded ==
    [][/\ \A id \in DOMAIN campaigns :
            (call' = [op |-> "runLaterLottery", campaignId |-> id]
                /\ campaigns[id].type = "later_lottery")
            => \/ ret'.op = "runLaterLottery" /\ ret'.eligibleAtStart = NotYetWon(id)
               \/ \E t \in Tasks :
                     /\ tasks[t] = Idle
                     /\ tasks'[t].op = "runLaterLottery"
                     /\ tasks'[t].campaignId = id
                     /\ tasks'[t].eligibleAtStart = NotYetWon(id)
       /\ \A t \in Tasks :
            (tasks[t].op = "runLaterLottery" /\ tasks'[t] # tasks[t])
            => \/ /\ tasks'[t].op = "runLaterLottery"
                  /\ tasks'[t].campaignId = tasks[t].campaignId
                  /\ tasks'[t].eligibleAtStart = tasks[t].eligibleAtStart
               \/ /\ tasks'[t] = Idle
                  /\ ret'.op = "runLaterLottery"
                  /\ ret'.campaignId = tasks[t].campaignId
                  /\ ret'.eligibleAtStart = tasks[t].eligibleAtStart
       /\ (ret'.op = "runLaterLottery" /\ ret'.campaignId \in DOMAIN campaigns)
            => /\ Len(ret'.value) <= SumQuantity(campaigns[ret'.campaignId].prizes)
               /\ Len(ret'.value) <= ret'.eligibleAtStart
               /\ \A m, n \in DOMAIN ret'.value : m # n => ret'.value[m] # ret'.value[n]
      ]_vars

\* A draw has just returned one winner out of two eligible participants.
MoreEligibleThanPrizes ==
    /\ ret.op = "runLaterLottery"
    /\ Len(ret.value) = 1
    /\ ret.eligibleAtStart = 2

\* ---------------------------------------------------------------------- C6
\* C6: enterCampaign returns false and changes nothing in the store (and
\* suspends nothing) when the campaign id is unknown, the campaign is not
\* active, or the user already has a participant record in it.
EnterRejectionHasNoEffect ==
    [][\A id \in CampaignIds, user \in Users :
          ( /\ EnterCalled(id, user)
            /\ \/ id \notin DOMAIN campaigns
               \/ campaigns[id].status # "active"
               \/ HasEntered(id, user) )
          => /\ ret' = [op |-> "enterCampaign", campaignId |-> id, user |-> user,
                        value |-> FALSE]
             /\ campaigns' = campaigns
             /\ tasks' = tasks
      ]_vars

\* An entry into an ended campaign that has participants has just been refused.
EntryAfterEndRefused ==
    /\ call.op = "enterCampaign"
    /\ ret.op = "enterCampaign"
    /\ ret.value = FALSE
    /\ call.campaignId \in DOMAIN campaigns
    /\ campaigns[call.campaignId].status = "ended"
    /\ campaigns[call.campaignId].participants # <<>>
    /\ ~HasEntered(call.campaignId, call.user)

\* ---------------------------------------------------------------------- C7
\* C7: whenever no call is in progress, for every prize of every campaign,
\* quantity - remaining is the number of the campaign's participants whose
\* prizeId is that prize.
OneDecrementPerAward ==
    NoCallInProgress =>
        \A id \in DOMAIN campaigns : \A k \in DOMAIN campaigns[id].prizes :
            campaigns[id].prizes[k].quantity - campaigns[id].prizes[k].remaining
                = Cardinality(Holders(id, k))

\* ---------------------------------------------------------------------- C8
\* C8: createCampaign stores, under the id it returns, a campaign in status
\* draft with no participants in which every prize's remaining is its
\* quantity, whatever remaining the caller supplied; getCampaign returns it.
CreatedAsDraft ==
    [][call'.op = "createCampaign" =>
          /\ ret'.op = "createCampaign"
          /\ ret'.campaignId \notin DOMAIN campaigns
          /\ ret'.campaignId \in DOMAIN campaigns'
          /\ LET created == campaigns'[ret'.campaignId]
             IN  /\ created.status = "draft"
                 /\ created.participants = <<>>
                 /\ DOMAIN created.prizes = DOMAIN call'.prizes
                 /\ \A k \in DOMAIN created.prizes :
                       /\ created.prizes[k].id = call'.prizes[k].id
                       /\ created.prizes[k].quantity = call'.prizes[k].quantity
                       /\ created.prizes[k].remaining = call'.prizes[k].quantity
      ]_vars

\* A campaign has just been created from a prize whose supplied remaining
\* differed from its quantity.
CreatedDespiteSuppliedRemaining ==
    /\ call.op = "createCampaign"
    /\ ret.op = "createCampaign"
    /\ getCampaign(ret.campaignId).status = "draft"
    /\ \E k \in DOMAIN call.prizes :
          /\ call.prizes[k].remaining # call.prizes[k].quantity
          /\ getCampaign(ret.campaignId).prizes[k].remaining = call.prizes[k].quantity

\* ---------------------------------------------------------------------- C9
\* C9: a campaign's status only moves forward along draft -> active -> ended;
\* in particular an ended campaign never becomes active or draft again.
StatusRank(status) ==
    IF status = "draft" THEN 0 ELSE IF status = "active" THEN 1 ELSE 2

StatusOnlyMovesForward ==
    [][\A id \in DOMAIN campaigns :
          StatusRank(campaigns[id].status) <= StatusRank(campaigns'[id].status)]_vars

\* --------------------------------------------------------------------- C10
\* C10: endCampaign on an already ended campaign returns the campaign, leaves
\* the status ended and leaves participants and prizes as they were.
EndCampaignIdempotent ==
    [][\A id \in DOMAIN campaigns :
          (call'.op = "endCampaign" /\ call'.campaignId = id
              /\ campaigns[id].status = "ended")
          => /\ ret' = [op |-> "endCampaign", campaignId |-> id, value |-> "campaign"]
             /\ campaigns'[id].status = "ended"
             /\ campaigns'[id].participants = campaigns[id].participants
             /\ campaigns'[id].prizes = campaigns[id].prizes
      ]_vars

\* endCampaign has just returned for a campaign with participants that was
\* ended already.
EndedTwice ==
    /\ call.op = "endCampaign"
    /\ call.was = "ended"
    /\ ret.op = "endCampaign"
    /\ ret.value = "campaign"
    /\ campaigns[call.campaignId].status = "ended"
    /\ campaigns[call.campaignId].participants # <<>>

\* --------------------------------------------------------------------- C11
\* C11: on a campaign id that is not in the store, startCampaign and
\* endCampaign return null and runLaterLottery returns an empty list; none of
\* them throws, changes any campaign or leaves a call suspended.
UnknownCampaignIsNotFound ==
    [][\A id \in CampaignIds :
          (id \notin DOMAIN campaigns /\ call'.op # "none" /\ call'.op # "createCampaign"
              /\ call'.campaignId = id)
          => /\ campaigns' = campaigns
             /\ tasks' = tasks
             /\ ret'.op = call'.op
             /\ ret'.campaignId = id
             /\ call'.op \in {"startCampaign", "endCampaign"} => ret'.value = "null"
             /\ call'.op = "runLaterLottery" => ret'.value = <<>>
      ]_vars

\* startCampaign has just returned null for an id that is not the id of the
\* campaign in the store.
StartOfUnknownReturnedNull ==
    /\ call.op = "startCampaign"
    /\ ret.op = "startCampaign"
    /\ ret.value = "null"
    /\ call.campaignId \notin DOMAIN campaigns
    /\ \E id \in DOMAIN campaigns : campaigns[id].status = "draft"

\* --------------------------------------------------------------------- C12
\* C12: runLaterLottery on an instant_web or instant_auto campaign returns an
\* empty list and changes no participant and no prize (nor anything else of
\* the store), and leaves no call suspended.
LaterLotteryRejectsInstant ==
    [][\A id \in DOMAIN campaigns :
          (call' = [op |-> "runLaterLottery", campaignId |-> id] /\ InstantType(id))
          => /\ ret'.op = "runLaterLottery"
             /\ ret'.campaignId = id
             /\ ret'.value = <<>>
             /\ campaigns' = campaigns
             /\ tasks' = tasks
      ]_vars

\* runLaterLottery has just been refused on an instant campaign that has a
\* participant who has not won and a prize with a positive quantity.
InstantDrawRefused ==
    /\ call.op = "runLaterLottery"
    /\ ret.op = "runLaterLottery"
    /\ ret.value = <<>>
    /\ call.campaignId \in DOMAIN campaigns
    /\ InstantType(call.campaignId)
    /\ NotYetWon(call.campaignId) > 0
    /\ SumQuantity(campaigns[call.campaignId].prizes) > 0

\* ------------------------------------- vocabulary of the scheduler claims
StoredPosts == DOMAIN scheduledPosts
StatusOf(id) == heap[scheduledPosts[id]].status
TargetOf(id) == heap[scheduledPosts[id]].scheduledAt
IsPending(id) == id \in StoredPosts /\ StatusOf(id) = "pending"
InFlight(id) == {x \in Executions : executions[x] # NoExecution /\ executions[x].postId = id}
\* A trigger is armed for the post: `timers` holds a handle of a timeout
\* that has not fired.
Armed(id) == id \in DOMAIN timers /\ \E t \in timeouts : t.handle = timers[id] /\ t.postId = id
\* The step starts an execution of the post.
ExecutionStarts(id) == Cardinality(InFlight(id)') > Cardinality(InFlight(id))
\* The step is a call of schedulePost: it generates an id.
SchedulePostCalled == generated' = generated + 1

\* --------------------------------------------------------------------- C13
\* C13: a schedulePost call made while the scheduler is running, with a target
\* time that is already in the past, starts the execution of the new post
\* within that call.
PastDuePostExecutesAtOnce ==
    [][\A id \in PostIds :
          (SchedulePostCalled /\ id = generated + 1 /\ isRunning /\ TargetOf(id)' < now)
          => ExecutionStarts(id)
      ]_schedulerVars

\* --------------------------------------------------------------------- C15
\* C15: no post has two executions awaiting publishPost at the same time.
OnePublishPerPost == \A id \in PostIds : Cardinality(InFlight(id)) <= 1

\* --------------------------------------------------------------------- C16
\* C16: a post that is posted or failed stays in the store with that status
\* and no execution of it is started, except that retryPost turns a failed
\* post into a pending one (and executes it when the scheduler is running).
RetryStep == event' \in {[op |-> "retryPost", returned |-> "awaiting"],
                         [op |-> "retryPost", returned |-> "true"]}

TerminalStatusIsFinal ==
    [][\A id \in StoredPosts :
          StatusOf(id) \in {"posted", "failed"}
          => \/ /\ id \in StoredPosts'
                /\ StatusOf(id)' = StatusOf(id)
                /\ ~ExecutionStarts(id)
             \/ /\ StatusOf(id) = "failed"
                /\ RetryStep
                /\ id \in StoredPosts'
                /\ StatusOf(id)' = "pending"
      ]_schedulerVars

\* --------------------------------------------------------------------- C17
\* C17: while the scheduler is stopped (after stop() and before the next
\* start()), no step starts an execution of any post.
NoExecutionStartsWhileStopped ==
    [][(~isRunning /\ ~isRunning') => \A id \in PostIds : ~ExecutionStarts(id)]_schedulerVars

\* --------------------------------------------------------------------- C18
\* C18: while the scheduler is stopped no reconciliation timeout is armed, and
\* at most one is armed at any time.
OneSweepTimerOnlyWhileRunning ==
    /\ ~isRunning => sweepTimeouts = 0
    /\ sweepTimeouts <= 1

SchedulePostStoresAndArms ==
    [][/\ \A id \in PostIds :
             (SchedulePostCalled /\ id = generated + 1)
             => /\ id \notin StoredPosts
                /\ StoredPosts' = StoredPosts \cup {id}
                /\ StatusOf(id)' = "pending"
                /\ \A other \in StoredPosts :
                      heap'[scheduledPosts'[other]] = heap[scheduledPosts[other]]
                /\ event' = [op |-> "schedulePost", returned |-> "post"]
                /\ Armed(id)' <=> (isRunning /\ TargetOf(id)' > now)
       /\ (~isRunning /\ ~isRunning') => \A id \in PostIds : Armed(id)' => Armed(id)
      ]_schedulerVars

\* schedulePost has just returned a post for which a trigger is armed.
ScheduledWithTrigger ==
    /\ event = [op |-> "schedulePost", returned |-> "post"]
    /\ isRunning
    /\ IsPending(generated)
    /\ Armed(generated)

\* --------------------------------------------------------------------- C20
\* C20: updateScheduledPost returns null and deleteScheduledPost returns false
\* when the id is unknown or the post is not pending, retryPost returns false
\* when the id is unknown or the post is not failed; these calls change
\* neither the store nor the triggers nor the executions.
HasStatus(id, status) == IF id \in StoredPosts THEN StatusOf(id) = status ELSE FALSE

SchedulerUntouched ==
    UNCHANGED <<scheduledPosts, heap, timers, timeouts, sweepTimeouts, executions, isRunning>>

RejectedCallsChangeNothing ==
    [][\A id \in PostIds :
          /\ (/\ event'.op = "updateScheduledPost"
              /\ ~HasStatus(id, "pending")
              /\ \E updates \in UpdateInputs : updateScheduledPost(id, updates))
             => event'.returned = "null" /\ SchedulerUntouched
          /\ (/\ event'.op = "deleteScheduledPost"
              /\ ~HasStatus(id, "pending")
              /\ deleteScheduledPost(id))
             => event'.returned = "false" /\ SchedulerUntouched
          /\ (/\ event'.op = "retryPost"
              /\ ~HasStatus(id, "failed")
              /\ retryPost(id))
             => event'.returned = "false" /\ SchedulerUntouched
      ]_schedulerVars

\* updateScheduledPost has just returned null while a posted post is stored
\* and a trigger is armed.
UpdateRefused ==
    /\ event = [op |-> "updateScheduledPost", returned |-> "null"]
    /\ \E id \in StoredPosts : StatusOf(id) = "posted"
    /\ \E id \in StoredPosts : Armed(id)

\* --------------------------------------------------------------------- C21
\* C21: in every reachable state getStatistics reports totalScheduled equal
\* to the number of stored posts and to pending + posted + failed; and as long
\* as no execution has ended, every stored post is counted as pending and
\* posted is 0 (no step other than the end of an execution takes a post out
\* of the pending count).
ExecutionEnds ==
    \E id \in PostIds : Cardinality(InFlight(id))' < Cardinality(InFlight(id))

AllCountedPending ==
    /\ getStatistics.pending = getStatistics.totalScheduled
    /\ getStatistics.posted = 0

StatisticsAddUp ==
    /\ [](/\ getStatistics.totalScheduled = Cardinality(StoredPosts)
          /\ getStatistics.totalScheduled
                 = getStatistics.pending + getStatistics.posted + getStatistics.failed)
    /\ [][(AllCountedPending /\ ~ExecutionEnds) => AllCountedPending']_schedulerVars

\* The statistics of a store holding a posted post and a pending post.
StatisticsOfMixedStore ==
    /\ getStatistics.totalScheduled = 2
    /\ getStatistics.posted = 1
    /\ getStatistics.pending = 1

\* --------------------------------------------------------------------- C22
\* C22: when an execution of a post ends, the post is in the store with
\* status posted if publishPost resolved and failed if it rejected; in both
\* cases `timers` has no entry for the post, and the caller gets no error: a
\* retryPost awaiting the execution returns true, a timeout callback returns
\* nothing.
ExecutionEndsAs(x, outcome) ==
    /\ publishSettles(x, outcome)
    /\ \A id \in PostIds :
          executions[x].postId = id
          => /\ id \in StoredPosts'
             /\ StatusOf(id)' = (IF outcome = "resolved" THEN "posted" ELSE "failed")
             /\ id \notin DOMAIN timers'
             /\ event' = IF executions[x].by = "retryPost"
                         THEN [op |-> "retryPost", returned |-> "true"]
                         ELSE NoEvent

ExecutionEndsPostedOrFailed ==
    [][/\ \A x \in Executions, outcome \in PublishOutcomes :
             publishSettles(x, outcome) => ExecutionEndsAs(x, outcome)
       /\ \A id \in PostIds :
             Cardinality(InFlight(id))' < Cardinality(InFlight(id))
             => /\ id \in StoredPosts'
                /\ StatusOf(id)' \in {"posted", "failed"}
                /\ id \notin DOMAIN timers'
      ]_schedulerVars

\* A retryPost whose publishPost rejected has just returned true, and the
\* post is failed again.
RetryReturnedAfterRejection ==
    /\ isRunning
    /\ event = [op |-> "retryPost", returned |-> "true"]
    /\ StoredPosts # {}
    /\ \A id \in StoredPosts : StatusOf(id) = "failed" /\ id \notin DOMAIN timers

\* --------------------------------------------------------------------- C23
\* C23: after a successful updateScheduledPost of a pending post, if the
\* scheduler is running and the post's target time is in the future, exactly
\* one timeout is armed for the post, at that target time, and `timers` holds
\* it; this whether the update gave a text or a target time.
TimeoutsOf(id) == {t \in timeouts : t.postId = id}

ArmedOnceAtTarget(id) ==
    /\ Armed(id)
    /\ Cardinality(TimeoutsOf(id)) = 1
    /\ \A t \in TimeoutsOf(id) : t.at = TargetOf(id)

UpdateLeavesOneTrigger ==
    [][\A id \in PostIds, updates \in UpdateInputs :
          (~NotPending(id) /\ updateScheduledPost(id, updates)
             /\ isRunning /\ TargetOf(id)' > now)
          => ArmedOnceAtTarget(id)']_schedulerVars

\* --------------------------------------------------------------------- C24
\* C24: a failed post that retryPost has reset while the scheduler was
\* stopped stays pending for as long as the scheduler stays stopped (it may
\* be deleted).  Stated for the store holding that one post: retryPost has
\* just returned true, the post is pending, and the next step is taken with
\* the scheduler still stopped.
RetriedWhileStopped(id) ==
    /\ ~isRunning
    /\ event = [op |-> "retryPost", returned |-> "true"]
    /\ StoredPosts = {id}
    /\ IsPending(id)

RetriedPostWaitsForStart ==
    [][\A id \in PostIds :
          (RetriedWhileStopped(id) /\ ~isRunning')
          => (id \notin StoredPosts' \/ IsPending(id)')]_schedulerVars

\* --------------------------------------------------------------------- C27
\* C27: a post id that deleteScheduledPost has removed never comes back.
\* Ids are not reused and only deleteScheduledPost removes a post, so the
\* removed ids are the generated ids that the store does not hold.
DeletedPostStaysDeleted ==
    [][\A id \in 1..generated :
          getScheduledPost(id) = undefined => getScheduledPost(id)' = undefined
      ]_schedulerVars

\* --------------------------------------------------------------------- C30
\* C30: the text that a successful updateScheduledPost gave a post is what
\* getScheduledPost returns for as long as the post is stored (no later
\* update gives another text, and retryPost leaves the text alone).
UpdatedTextStays ==
    [][\A id \in PostIds :
          (/\ getScheduledPost(id) # undefined
           /\ getScheduledPost(id).text \in UpdateTexts
           /\ getScheduledPost(id)' # undefined)
          => getScheduledPost(id)'.text = getScheduledPost(id).text
      ]_schedulerVars

\* --------------------------------------------------------------------- C25
\* C25: when runLaterLottery calls on a later_lottery campaign follow one
\* another, a participant who has won keeps won = true and the same prizeId
\* whatever is called later, and every winner a call draws had won = false
\* until that draw (so since the call began: nothing else runs meanwhile).
DrawnBy(t) == IF tasks[t].op = "runLaterLottery" THEN tasks[t].winners ELSE <<>>

Draws(t) ==
    /\ tasks'[t].op = "runLaterLottery"
    /\ Len(tasks'[t].winners) = Len(DrawnBy(t)) + 1

LastDrawn(t) == tasks'[t].winners[Len(tasks'[t].winners)]

RedrawSparesEarlierWinners ==
    [][/\ \A id \in DOMAIN campaigns : \A n \in DOMAIN campaigns[id].participants :
             (campaigns[id].type = "later_lottery" /\ campaigns[id].participants[n].won)
             => campaigns'[id].participants[n] = campaigns[id].participants[n]
       /\ \A t \in Tasks :
             Draws(t)
             => /\ ~campaigns[tasks'[t].campaignId].participants[LastDrawn(t)].won
                /\ campaigns'[tasks'[t].campaignId].participants[LastDrawn(t)].won
      ]_vars

\* A later call has returned a winner while a winner of an earlier call
\* holds a prize.
RedrawnAmongTheRest ==
    /\ ret.op = "runLaterLottery"
    /\ ret.campaignId \in DOMAIN campaigns
    /\ Len(ret.value) = 1
    /\ \E n \in DOMAIN campaigns[ret.campaignId].participants :
          /\ n # ret.value[1]
          /\ campaigns[ret.campaignId].participants[n].won

\* --------------------------------------------------------------------- C29
\* C29: however runLaterLottery calls on a later_lottery campaign overlap, a
\* participant who has won is not drawn again by any call and keeps the
\* prizeId assigned.
AwardedAtMostOnce ==
    [][\A id \in DOMAIN campaigns : \A n \in DOMAIN campaigns[id].participants :
          (campaigns[id].type = "later_lottery" /\ campaigns[id].participants[n].won)
          => /\ campaigns'[id].participants[n].prizeId = campaigns[id].participants[n].prizeId
             /\ \A t \in Tasks :
                   ~(Draws(t) /\ tasks'[t].campaignId = id /\ LastDrawn(t) = n)
      ]_vars

\* --------------------------------------------------------------------- C26
\* C26: however enterCampaign calls on an instant campaign overlap, no call
\* returns true for a user who already has a participant record in the
\* campaign, and no step leaves a user with two records.
EntriesOf(id, user) ==
    {n \in DOMAIN campaigns[id].participants : campaigns[id].participants[n].userId = user}

OverlappingEntriesEnterOnce ==
    [][\A id \in DOMAIN campaigns, user \in Users :
          InstantType(id)
          => /\ Cardinality(EntriesOf(id, user)') <= 1
             /\ HasEntered(id, user)
                => ~(/\ ret'.op = "enterCampaign"
                     /\ ret'.campaignId = id
                     /\ ret'.user = user
                     /\ ret'.value = TRUE)
      ]_vars

\* --------------------------------------------------------------------- C28
\* C28: while an instant campaign is ended, no step changes its participants
\* or its prizes, whatever enterCampaign calls were suspended when
\* endCampaign ran.
EndedCampaignIsClosed ==
    [][\A id \in DOMAIN campaigns :
          (InstantType(id) /\ campaigns[id].status = "ended" /\ campaigns'[id].status = "ended")
          => /\ campaigns'[id].participants = campaigns[id].participants
             /\ campaigns'[id].prizes = campaigns[id].prizes
      ]_vars

====
